---- MODULE Spec2Model ----
(***************************************************************************)
(* Model of the pomo-chan timer surface (usePomodoroTimer), of the         *)
(* renderer-side configuration hook (useAppConfig) and of the main         *)
(* process configuration handlers (config:get / config:set).               *)
(***************************************************************************)
EXTENDS Integers, Sequences, FiniteSets, TLC

(***************************************************************************)
(* JavaScript numbers.  A number is a record [k, h]: k is "fin" for a      *)
(* finite value, "nan", "inf" or "ninf" otherwise; h is the value counted  *)
(* in halves (h = 51 is 25.5), so Math.round has something to round.       *)
(***************************************************************************)
Fin(i) == [k |-> "fin", h |-> 2 * i]

Halves(h) == [k |-> "fin", h |-> h]

NaN == [k |-> "nan", h |-> 0]

PosInfinity == [k |-> "inf", h |-> 0]

NegInfinity == [k |-> "ninf", h |-> 0]

IsFinite(x) == x.k = "fin"

IsInteger(x) == x.k = "fin" /\ x.h % 2 = 0

\* Math.round: nearest integer, ties towards +Infinity = floor(x + 0.5)
MathRound(x) == Fin((x.h + 1) \div 2)

MathMin(a, b) == IF a.h <= b.h THEN a ELSE b

MathMax(a, b) == IF a.h >= b.h THEN a ELSE b

(***************************************************************************)
(* src/lib/pomodoro.ts                                                     *)
(***************************************************************************)
MIN_TIMER_MINUTES == 1

MAX_TIMER_MINUTES == 120

DEFAULT_FOCUS_MINUTES == 25

DEFAULT_BREAK_MINUTES == 5

SECONDS_PER_MINUTE == 60

Modes == {"focus", "break"}

MODES ==
  [focus |-> [seconds |-> DEFAULT_FOCUS_MINUTES * SECONDS_PER_MINUTE],
   break |-> [seconds |-> DEFAULT_BREAK_MINUTES * SECONDS_PER_MINUTE]]

clampTimerMinutesNoUpper(value) ==
  IF ~IsFinite(value) THEN Fin(MIN_TIMER_MINUTES)
  ELSE MathMax(Fin(MIN_TIMER_MINUTES), MathRound(value))

clampTimerMinutes(value) ==
  IF ~IsFinite(value) THEN Fin(MIN_TIMER_MINUTES)
  ELSE MathMin(Fin(MAX_TIMER_MINUTES),
               MathMax(Fin(MIN_TIMER_MINUTES), MathRound(value)))

\* the minutes of the mode multiplied as they come
getModeSecondsUnclamped(m, focusMinutes, breakMinutes) ==
  LET minutes == IF m = "focus" THEN focusMinutes ELSE breakMinutes
  IN  (minutes.h \div 2) * SECONDS_PER_MINUTE

\* the result is a whole number of seconds (clampTimerMinutes is integral)
getModeSeconds(m, focusMinutes, breakMinutes) ==
  LET minutes == IF m = "focus" THEN focusMinutes ELSE breakMinutes
  IN  (clampTimerMinutes(minutes).h \div 2) * SECONDS_PER_MINUTE

(***************************************************************************)
(* Configuration objects.  An AppConfig is a record with all five keys; a  *)
(* Partial<AppConfig> is a record with any subset of them.                 *)
(***************************************************************************)
Has(obj, key) == key \in DOMAIN obj

\* object spread  { ...a, ...b }
Spread(a, b) ==
  [key \in (DOMAIN a) \cup (DOMAIN b) |-> IF key \in DOMAIN b THEN b[key] ELSE a[key]]

DEFAULT_AMBIENT_VOLUMES == [fire |-> Fin(0), rain |-> Fin(0), forest |-> Fin(0)]

DEFAULT_CONFIG ==
  [playTick       |-> FALSE,
   audioLanguage  |-> "jp",
   ambientVolumes |-> DEFAULT_AMBIENT_VOLUMES,
   focusMinutes   |-> Fin(DEFAULT_FOCUS_MINUTES),
   breakMinutes   |-> Fin(DEFAULT_BREAK_MINUTES)]

\* obj.key ?? {}
OrEmpty(obj, key) == IF Has(obj, key) THEN obj[key] ELSE << >>

mergeAmbientVolumes(volumes) == Spread(DEFAULT_AMBIENT_VOLUMES, volumes)

normalizeConfig(value) ==
  [Spread(DEFAULT_CONFIG, value) EXCEPT
     !.focusMinutes = clampTimerMinutes(IF Has(value, "focusMinutes")
                                          THEN value.focusMinutes
                                          ELSE Fin(DEFAULT_FOCUS_MINUTES)),
     !.breakMinutes = clampTimerMinutes(IF Has(value, "breakMinutes")
                                          THEN value.breakMinutes
                                          ELSE Fin(DEFAULT_BREAK_MINUTES)),
     !.ambientVolumes = mergeAmbientVolumes(OrEmpty(value, "ambientVolumes"))]

(***************************************************************************)
(* Bounds and input sets                                                   *)
(***************************************************************************)
\* longest queue of config:set calls / config:changed messages in flight
MaxInFlight == 2

Windows == {"timer", "settings"}

\* numbers typed into the minutes inputs (ConfigWindow handleMinutesChange)
MinuteInputs == {Fin(0), Fin(121), Halves(51), NaN}

\* partial updates passed to updateConfig
PartialInputs ==
  {[focusMinutes |-> n] : n \in MinuteInputs} \cup
  {[breakMinutes |-> n] : n \in {NegInfinity}} \cup
  {[playTick |-> TRUE]}

\* configurations announced to the timer window on config:changed
ChangedInputs ==
  {[DEFAULT_CONFIG EXCEPT !.focusMinutes = Fin(15)],
   [DEFAULT_CONFIG EXCEPT !.focusMinutes = Fin(30)],
   [DEFAULT_CONFIG EXCEPT !.focusMinutes = Fin(30), !.breakMinutes = Fin(10)]}

(***************************************************************************)
(* State                                                                   *)
(***************************************************************************)
VARIABLES
  mode,            \* usePomodoroTimer: useState<Mode>
  remaining,       \* usePomodoroTimer: useState(MODES.focus.seconds)
  isRunning,       \* usePomodoroTimer: useState(false)
  pendingMode,     \* usePomodoroTimer: useState<Mode | null>, "null" for null
  config,          \* useAppConfig state of every window
  configStore,     \* electron-store contents in the main process
  outbox,          \* config:set invocations sent by a window, not yet handled
  inbox,           \* config:get replies / config:changed messages not yet delivered
  getPending,      \* the mount-time api.get() of a window is still to be handled
  lastSet,         \* history: the value of the config:set invocation handled last
  storeBefore,     \* history: the store contents when that invocation was taken up
  lastBroadcast,   \* history: the configuration that invocation broadcast, << >> if none
  sessionEvents,   \* calls of useSessionRecorder().addSession made by the timer surface
  runStartedFresh, \* history: the current Focus run was started at remaining = total
  lastEvent,       \* history: name of the last operation
  prev,            \* history: timer state before the last operation
  mounted,         \* the timer surface is mounted (its effects are live)
  tickIntervals,   \* number of live setInterval timers of the tick effect
  isRunningRef,    \* usePomodoroTimer: isRunningRef.current
  reminderTimeoutRef, \* usePomodoroTimer: reminderTimeoutRef.current, 0 for null
  timeouts,        \* live setTimeout timers: id -> milliseconds elapsed
  nextTickIsTick,  \* usePomodoroTimer: nextTickIsTickRef.current
  sounds,          \* the cues the last operation asked the audio layer to play
  metronomeLog,    \* history: the last two metronome sounds, "none" if none
  playFailed,      \* a play() promise of the last operation was rejected
  call,            \* the arguments and the result of a call of lib/pomodoro.ts
  sessions,        \* session store: the rows of table sessions, in rowid order
  usage,           \* session store: the rows of table session_app_usage
  lastOp,          \* history: the last session-store operation and its outcome
  exported,        \* the file the last sessions:export wrote
  mainWindow,      \* main process: mainWindow is a live window (not null)
  hasActiveFocusSession,        \* main process: hasActiveFocusSession
  isBypassingCloseConfirmation, \* main process: isBypassingCloseConfirmation
  dialogs,         \* close-confirmation dialogs that are open, not yet answered
  closePending,    \* mainWindow.close() was called after Quit, the window is not closed yet
  quitChosen,      \* history: Quit was chosen in a confirmation dialog of this window
  lastWin,         \* history: the last main-window operation and the state before it
  topValue,        \* useAlwaysOnTop: the state `value`, useState(false)
  isAlwaysOnTop,   \* main process: mainWindow.isAlwaysOnTop()
  requests,        \* always-on-top invocations sent, not yet handled
  replies          \* their results, not yet delivered to the window

timerVars == <<mode, remaining, isRunning, pendingMode>>

syncVars == <<configStore, outbox, inbox, getPending, lastSet, storeBefore, lastBroadcast>>

effectVars == <<mounted, tickIntervals, isRunningRef, reminderTimeoutRef, timeouts>>

audioVars == <<nextTickIsTick, sounds, metronomeLog, playFailed>>

dbVars == <<sessions, usage, lastOp, exported>>

mainVars == <<mainWindow, hasActiveFocusSession, isBypassingCloseConfirmation,
              dialogs, closePending, quitChosen, lastWin>>

topVars == <<topValue, isAlwaysOnTop, requests, replies>>

\* the main window's close handling and its always-on-top state
hostVars == <<mainVars, topVars>>

\* everything that belongs to the timer surface
surfaceVars == <<timerVars, sessionEvents, runStartedFresh, prev, effectVars, audioVars>>

\* the windows and the configuration protocol
appVars == <<surfaceVars, syncVars, config>>

vars == <<mode, remaining, isRunning, pendingMode, config, configStore, outbox,
          inbox, getPending, lastSet, storeBefore, lastBroadcast, sessionEvents,
          runStartedFresh, lastEvent, prev, mounted, tickIntervals, isRunningRef,
          reminderTimeoutRef, timeouts, nextTickIsTick, sounds, metronomeLog,
          playFailed, call, sessions, usage, lastOp, exported, mainWindow,
          hasActiveFocusSession, isBypassingCloseConfirmation, dialogs,
          closePending, quitChosen, lastWin, topValue, isAlwaysOnTop, requests,
          replies>>

Opposite(m) == IF m = "focus" THEN "break" ELSE "focus"

\* the `total` the hook returns
total == MODES[mode].seconds

\* total-seconds derived from a window configuration (the Duration Policy)
ConfiguredTotal(m, cfg) == getModeSeconds(m, cfg.focusMinutes, cfg.breakMinutes)

Snapshot ==
  [mode |-> mode, remaining |-> remaining, isRunning |-> isRunning,
   pendingMode |-> pendingMode, total |-> total,
   configuredTotal |-> ConfiguredTotal(mode, config["timer"]),
   startedFresh |-> runStartedFresh, sessionCount |-> Len(sessionEvents)]

\* the windows and the main process right after start-up
InitApp ==
  /\ mode = "focus"
  /\ remaining = MODES["focus"].seconds
  /\ isRunning = FALSE
  /\ pendingMode = "null"
  /\ config = [w \in Windows |-> DEFAULT_CONFIG]
  /\ configStore = DEFAULT_CONFIG
  /\ outbox = [w \in Windows |-> <<>>]
  /\ inbox = [w \in Windows |-> <<>>]
  /\ getPending = [w \in Windows |-> TRUE]
  /\ lastSet = << >>
  /\ storeBefore = DEFAULT_CONFIG
  /\ lastBroadcast = << >>
  /\ sessionEvents = <<>>
  /\ runStartedFresh = FALSE
  /\ lastEvent = "Init"
  /\ prev = Snapshot
  /\ mounted = TRUE
  /\ tickIntervals = 0
  /\ isRunningRef = FALSE
  /\ reminderTimeoutRef = 1
  /\ timeouts = (1 :> 0)
  /\ nextTickIsTick = TRUE
  /\ sounds = <<>>
  /\ metronomeLog = <<"none", "none">>
  /\ playFailed = FALSE

\* no call of lib/pomodoro.ts has been made
NoCall ==
  [fn |-> "none", mode |-> "focus", focusMinutes |-> Fin(DEFAULT_FOCUS_MINUTES),
   breakMinutes |-> Fin(DEFAULT_BREAK_MINUTES), clamped |-> Fin(0), seconds |-> 0]

\* no session-store operation has been made
NoOp == [op |-> "none"]

\* a fresh database: ensureDb has created both tables empty
\* no export has been written
NoFile == [kind |-> "none"]

InitDb == sessions = <<>> /\ usage = <<>> /\ lastOp = NoOp /\ exported = NoFile

\* no main-window operation has been made
NoWin == [op |-> "none"]

\* app "ready" has run createWindow; the flags have their declared values
InitMain ==
  /\ mainWindow = TRUE
  /\ hasActiveFocusSession = FALSE
  /\ isBypassingCloseConfirmation = FALSE
  /\ dialogs = 0
  /\ closePending = FALSE
  /\ quitChosen = FALSE
  /\ lastWin = NoWin

\* the window is not on top; useAlwaysOnTop has mounted, its api.get() is under way
InitTop ==
  /\ topValue = FALSE
  /\ isAlwaysOnTop = FALSE
  /\ requests = <<[kind |-> "get"]>>
  /\ replies = << >>

InitHost == InitMain /\ InitTop

Init == InitApp /\ call = NoCall /\ InitDb /\ InitHost

Record(name) == lastEvent' = name /\ prev' = Snapshot

(***************************************************************************)
(* Effects and refs of usePomodoroTimer                                    *)
(***************************************************************************)
REMINDER_INTERVAL_MS == 5 * 60 * 1000

\* the step in which the model lets time pass while a timeout is pending
TimeStep == 60 * 1000

\* the reminder ref together with the browser's live timeouts
ReminderState == [ref |-> reminderTimeoutRef, live |-> timeouts]

\* window.setTimeout's return value: an id no live timeout has
NewId(live) ==
  CHOOSE id \in 1..(Cardinality(DOMAIN live) + 1) : id \notin DOMAIN live

\* a clear that forgets the id and leaves the timeout pending
clearReminderTimeoutRefOnly(t) == [ref |-> 0, live |-> t.live]

clearReminderTimeout(t) ==
  IF t.ref = 0 THEN t
  ELSE [ref |-> 0, live |-> [id \in DOMAIN t.live \ {t.ref} |-> t.live[id]]]

\* a reminder timer that starts with part of its interval already used up
scheduleReminderShortened(t, running) ==
  LET cleared == clearReminderTimeout(t)
      id == NewId(cleared.live)
  IN  IF running THEN cleared
      ELSE [ref |-> id, live |-> cleared.live @@ (id :> TimeStep)]

\* scheduleReminder, with isRunningRef.current = running
scheduleReminder(t, running) ==
  LET cleared == clearReminderTimeout(t)
      id == NewId(cleared.live)
  IN  IF running THEN cleared
      ELSE [ref |-> id, live |-> cleared.live @@ (id :> 0)]

\* a tick effect whose cleanup does not clear the interval
TickEffectNoCleanup ==
  tickIntervals' = IF isRunning' THEN 1 ELSE tickIntervals

\* the tick effect after a render: the cleanup of the previous run clears the
\* interval that run created, the new run creates one iff isRunning
TickEffect ==
  tickIntervals' = tickIntervals - (IF isRunning THEN 1 ELSE 0)
                                 + (IF isRunning' THEN 1 ELSE 0)

\* the reminder effect that leaves the pending timer alone when the timer starts
ReminderEffectKeepsTimer ==
  IF isRunning' = isRunning
    THEN UNCHANGED <<isRunningRef, reminderTimeoutRef, timeouts>>
    ELSE LET next == IF isRunning' THEN ReminderState
                     ELSE scheduleReminder(clearReminderTimeout(ReminderState), isRunning')
         IN  /\ isRunningRef' = isRunning'
             /\ reminderTimeoutRef' = next.ref
             /\ timeouts' = next.live

\* the reminder effect after a render: it re-runs only when isRunning changed
\* (its other dependencies are stable callbacks): cleanup, then the body
ReminderEffect ==
  IF isRunning' = isRunning
    THEN UNCHANGED <<isRunningRef, reminderTimeoutRef, timeouts>>
    ELSE LET next == scheduleReminder(clearReminderTimeout(ReminderState), isRunning')
         IN  /\ isRunningRef' = isRunning'
             /\ reminderTimeoutRef' = next.ref
             /\ timeouts' = next.live

\* React commits the new state and re-runs the effects whose dependencies changed
Commit == UNCHANGED mounted /\ TickEffect /\ ReminderEffect

\* a cue handed to the audio layer: which sound, and on which occasion
Cue(which, event) == <<which, event>>

\* the operation asks for the cues; audio.play() may reject for any of them,
\* and the catch of playSound / playReminder / the interval callback logs it
Play(cues) ==
  /\ sounds' = cues
  /\ playFailed' \in (IF cues = <<>> THEN {FALSE} ELSE BOOLEAN)

\* the operation plays no cue and leaves the metronome alone
Silent == Play(<<>>) /\ UNCHANGED <<nextTickIsTick, metronomeLog>>

\* the sound the interval callback plays when config.playTick is set
MetronomeSound == IF nextTickIsTick THEN "tick" ELSE "tock"

\* a metronome that does not alternate
playMetronomeNoFlip ==
  IF config["timer"].playTick
    THEN /\ UNCHANGED nextTickIsTick
         /\ metronomeLog' = <<metronomeLog[2], MetronomeSound>>
    ELSE UNCHANGED <<nextTickIsTick, metronomeLog>>

\* the metronome part of the interval callback
playMetronome ==
  IF config["timer"].playTick
    THEN /\ nextTickIsTick' = ~nextTickIsTick
         /\ metronomeLog' = <<metronomeLog[2], MetronomeSound>>
    ELSE UNCHANGED <<nextTickIsTick, metronomeLog>>

\* the cues of one interval callback, in the order they are played
TickSounds ==
  (IF config["timer"].playTick THEN <<Cue(MetronomeSound, "metronome")>> ELSE <<>>)
  \o (IF remaining <= 1 THEN <<Cue(mode, "end")>> ELSE <<>>)

(***************************************************************************)
(* usePomodoroTimer                                                        *)
(***************************************************************************)
applyModeSwitchKeepRemaining(nextMode) ==
  /\ isRunning' = FALSE
  /\ mode' = nextMode
  /\ remaining' = remaining

applyModeSwitch(nextMode) ==
  /\ isRunning' = FALSE
  /\ mode' = nextMode
  /\ remaining' = MODES[nextMode].seconds

\* a Tick that completes only after the countdown has shown 0
TickCompletesAtZero ==
  /\ tickIntervals > 0
  /\ IF remaining <= 0
       THEN /\ isRunning' = FALSE
            /\ mode' = Opposite(mode)
            /\ remaining' = MODES[Opposite(mode)].seconds
            /\ runStartedFresh' = FALSE
       ELSE /\ remaining' = remaining - 1
            /\ UNCHANGED <<mode, isRunning, runStartedFresh>>
  /\ Record("Tick")
  /\ Commit
  /\ playMetronome
  /\ Play(TickSounds)
  /\ UNCHANGED <<pendingMode, config, sessionEvents>>
  /\ UNCHANGED <<syncVars, dbVars, call, hostVars>>

\* an interval callback that takes two seconds off at once
TickSkipsSecond ==
  /\ tickIntervals > 0
  /\ IF remaining <= 1
       THEN /\ isRunning' = FALSE
            /\ mode' = Opposite(mode)
            /\ remaining' = MODES[Opposite(mode)].seconds
            /\ runStartedFresh' = FALSE
       ELSE /\ remaining' = IF remaining > 2 THEN remaining - 2 ELSE 1
            /\ UNCHANGED <<mode, isRunning, runStartedFresh>>
  /\ Record("Tick")
  /\ Commit
  /\ playMetronome
  /\ Play(TickSounds)
  /\ UNCHANGED <<pendingMode, config, sessionEvents>>
  /\ UNCHANGED <<syncVars, dbVars, call, hostVars>>

\* completion keeps the interval alive
TickKeepsRunning ==
  /\ tickIntervals > 0
  /\ IF remaining <= 1
       THEN /\ mode' = Opposite(mode)
            /\ remaining' = MODES[Opposite(mode)].seconds
            /\ UNCHANGED isRunning
            /\ runStartedFresh' = FALSE
       ELSE /\ remaining' = remaining - 1
            /\ UNCHANGED <<mode, isRunning, runStartedFresh>>
  /\ Record("Tick")
  /\ Commit
  /\ playMetronome
  /\ Play(TickSounds)
  /\ UNCHANGED <<pendingMode, config, sessionEvents>>
  /\ UNCHANGED <<syncVars, dbVars, call, hostVars>>

\* the interval callback, one second after the previous one
Tick ==
  /\ tickIntervals > 0
  /\ IF remaining <= 1
       THEN /\ isRunning' = FALSE
            /\ mode' = Opposite(mode)
            /\ remaining' = MODES[Opposite(mode)].seconds
            /\ runStartedFresh' = FALSE
       ELSE /\ remaining' = remaining - 1
            /\ UNCHANGED <<mode, isRunning, runStartedFresh>>
  /\ Record("Tick")
  /\ Commit
  /\ playMetronome
  /\ Play(TickSounds)
  /\ UNCHANGED <<pendingMode, config, sessionEvents>>
  /\ UNCHANGED <<syncVars, dbVars, call, hostVars>>

\* a start that waits for its cue: a rejected play() leaves the timer as it was
toggleRunningNeedsAudio ==
  /\ mounted
  /\ Play(IF ~isRunning THEN <<Cue(mode, "start")>> ELSE <<>>)
  /\ isRunning' = IF playFailed' THEN isRunning ELSE ~isRunning
  /\ Commit
  /\ UNCHANGED <<nextTickIsTick, metronomeLog>>
  /\ runStartedFresh' =
       IF ~isRunning /\ mode = "focus" /\ remaining = total THEN TRUE
       ELSE runStartedFresh
  /\ Record("Toggle")
  /\ UNCHANGED <<mode, remaining, pendingMode, config, sessionEvents>>
  /\ UNCHANGED <<syncVars, dbVars, call, hostVars>>

\* a pause that still counts the second it interrupts
toggleRunningCountsOnPause ==
  /\ mounted
  /\ isRunning' = ~isRunning
  /\ remaining' = IF isRunning /\ remaining > 1 THEN remaining - 1 ELSE remaining
  /\ Commit
  /\ Play(IF ~isRunning THEN <<Cue(mode, "start")>> ELSE <<>>)
  /\ UNCHANGED <<nextTickIsTick, metronomeLog>>
  /\ runStartedFresh' =
       IF ~isRunning /\ mode = "focus" /\ remaining = total THEN TRUE
       ELSE runStartedFresh
  /\ Record("Toggle")
  /\ UNCHANGED <<mode, pendingMode, config, sessionEvents>>
  /\ UNCHANGED <<syncVars, dbVars, call, hostVars>>

\* a toggle that plays the start cue in both directions
toggleRunningAlwaysCues ==
  /\ mounted
  /\ isRunning' = ~isRunning
  /\ Commit
  /\ Play(<<Cue(mode, "start")>>)
  /\ UNCHANGED <<nextTickIsTick, metronomeLog>>
  /\ runStartedFresh' =
       IF ~isRunning /\ mode = "focus" /\ remaining = total THEN TRUE
       ELSE runStartedFresh
  /\ Record("Toggle")
  /\ UNCHANGED <<mode, remaining, pendingMode, config, sessionEvents>>
  /\ UNCHANGED <<syncVars, dbVars, call, hostVars>>

toggleRunning ==
  /\ mounted
  /\ isRunning' = ~isRunning
  /\ Commit
  /\ Play(IF ~isRunning THEN <<Cue(mode, "start")>> ELSE <<>>)
  /\ UNCHANGED <<nextTickIsTick, metronomeLog>>
  /\ runStartedFresh' =
       IF ~isRunning /\ mode = "focus" /\ remaining = total THEN TRUE
       ELSE runStartedFresh
  /\ Record("Toggle")
  /\ UNCHANGED <<mode, remaining, pendingMode, config, sessionEvents>>
  /\ UNCHANGED <<syncVars, dbVars, call, hostVars>>

requestModeSwitchIgnoresProgress ==
  /\ IF isRunning
       THEN /\ pendingMode' = Opposite(mode)
            /\ UNCHANGED <<mode, remaining, isRunning, runStartedFresh>>
       ELSE /\ applyModeSwitch(Opposite(mode))
            /\ runStartedFresh' = FALSE
            /\ UNCHANGED pendingMode
  /\ mounted
  /\ Commit
  /\ Silent
  /\ Record("Request")
  /\ UNCHANGED <<config, sessionEvents>>
  /\ UNCHANGED <<syncVars, dbVars, call, hostVars>>

requestModeSwitch ==
  /\ IF isRunning \/ remaining # total
       THEN /\ pendingMode' = Opposite(mode)
            /\ UNCHANGED <<mode, remaining, isRunning, runStartedFresh>>
       ELSE /\ applyModeSwitch(Opposite(mode))
            /\ runStartedFresh' = FALSE
            /\ UNCHANGED pendingMode
  /\ mounted
  /\ Commit
  /\ Silent
  /\ Record("Request")
  /\ UNCHANGED <<config, sessionEvents>>
  /\ UNCHANGED <<syncVars, dbVars, call, hostVars>>

confirmModeSwitchKeepsPending ==
  /\ IF pendingMode = "null"
       THEN UNCHANGED <<mode, remaining, isRunning, pendingMode, runStartedFresh>>
       ELSE /\ applyModeSwitch(pendingMode)
            /\ runStartedFresh' = FALSE
            /\ UNCHANGED pendingMode
  /\ mounted
  /\ Commit
  /\ Silent
  /\ Record("Confirm")
  /\ UNCHANGED <<config, sessionEvents>>
  /\ UNCHANGED <<syncVars, dbVars, call, hostVars>>

confirmModeSwitch ==
  /\ IF pendingMode = "null"
       THEN UNCHANGED <<mode, remaining, isRunning, pendingMode, runStartedFresh>>
       ELSE /\ applyModeSwitch(pendingMode)
            /\ pendingMode' = "null"
            /\ runStartedFresh' = FALSE
  /\ mounted
  /\ Commit
  /\ Silent
  /\ Record("Confirm")
  /\ UNCHANGED <<config, sessionEvents>>
  /\ UNCHANGED <<syncVars, dbVars, call, hostVars>>

cancelModeSwitchStopsTimer ==
  /\ pendingMode' = "null"
  /\ isRunning' = FALSE
  /\ mounted
  /\ Record("Cancel")
  /\ UNCHANGED <<mode, remaining, runStartedFresh, config, sessionEvents>>
  /\ Commit
  /\ Silent
  /\ UNCHANGED <<syncVars, dbVars, call, hostVars>>

cancelModeSwitch ==
  /\ pendingMode' = "null"
  /\ mounted
  /\ Record("Cancel")
  /\ UNCHANGED <<mode, remaining, isRunning, runStartedFresh, config, sessionEvents>>
  /\ Commit
  /\ Silent
  /\ UNCHANGED <<syncVars, dbVars, call, hostVars>>

(***************************************************************************)
(* useAppConfig                                                            *)
(***************************************************************************)
\* the api.get().then / api.onChange callback of window w
onChange(w, value) ==
  config' = [config EXCEPT ![w] = normalizeConfig(value)]

\* a config change that re-derives the timer's remaining from the new durations
ConfigurationChangedSnaps(value) ==
  /\ onChange("timer", value)
  /\ remaining' = ConfiguredTotal(mode, normalizeConfig(value))
  /\ mounted
  /\ Record("ConfigChanged")
  /\ UNCHANGED <<mode, isRunning, pendingMode, sessionEvents, runStartedFresh>>
  /\ Commit
  /\ Silent
  /\ UNCHANGED <<syncVars, dbVars, call, hostVars>>

\* config:changed reaches the timer window: usePomodoroTimer re-renders with
\* the new config and keeps mode, remaining, isRunning and pendingMode
ConfigurationChanged(value) ==
  /\ onChange("timer", value)
  /\ mounted
  /\ Record("ConfigChanged")
  /\ UNCHANGED <<timerVars, sessionEvents, runStartedFresh>>
  /\ Commit
  /\ Silent
  /\ UNCHANGED <<syncVars, dbVars, call, hostVars>>

\* time passes while a timeout is pending; a timeout that is due fires first
TimePasses ==
  /\ DOMAIN timeouts # {}
  /\ \A id \in DOMAIN timeouts : timeouts[id] + TimeStep <= REMINDER_INTERVAL_MS
  /\ timeouts' = [id \in DOMAIN timeouts |-> timeouts[id] + TimeStep]
  /\ Silent
  /\ Record("TimePasses")
  /\ UNCHANGED <<timerVars, config, sessionEvents, runStartedFresh, mounted,
                 tickIntervals, isRunningRef, reminderTimeoutRef>>
  /\ UNCHANGED <<syncVars, dbVars, call, hostVars>>

\* a reminder callback that plays the cue and schedules nothing
ReminderFiresOnce(id) ==
  /\ id \in DOMAIN timeouts
  /\ timeouts[id] >= REMINDER_INTERVAL_MS
  /\ timeouts' = [x \in DOMAIN timeouts \ {id} |-> timeouts[x]]
  /\ Play(IF isRunningRef THEN <<>> ELSE <<Cue("reminder", "reminder")>>)
  /\ Record("Reminder")
  /\ UNCHANGED <<timerVars, config, sessionEvents, runStartedFresh, mounted,
                 tickIntervals, isRunningRef, reminderTimeoutRef, nextTickIsTick,
                 metronomeLog>>
  /\ UNCHANGED <<syncVars, dbVars, call, hostVars>>

\* the setTimeout callback of scheduleReminder for the due timeout id
ReminderFires(id) ==
  /\ id \in DOMAIN timeouts
  /\ timeouts[id] >= REMINDER_INTERVAL_MS
  /\ LET fired == [ref |-> reminderTimeoutRef,
                   live |-> [x \in DOMAIN timeouts \ {id} |-> timeouts[x]]]
         next == IF isRunningRef THEN fired ELSE scheduleReminder(fired, isRunningRef)
     IN  /\ reminderTimeoutRef' = next.ref
         /\ timeouts' = next.live
  /\ Play(IF isRunningRef THEN <<>> ELSE <<Cue("reminder", "reminder")>>)
  /\ Record("Reminder")
  /\ UNCHANGED <<timerVars, config, sessionEvents, runStartedFresh, mounted,
                 tickIntervals, isRunningRef, nextTickIsTick, metronomeLog>>
  /\ UNCHANGED <<syncVars, dbVars, call, hostVars>>

\* a teardown that forgets the reminder timer
UnmountKeepsReminder ==
  /\ mounted
  /\ mounted' = FALSE
  /\ tickIntervals' = tickIntervals - (IF isRunning THEN 1 ELSE 0)
  /\ Silent
  /\ Record("Unmount")
  /\ UNCHANGED <<timerVars, config, sessionEvents, runStartedFresh, isRunningRef,
                 reminderTimeoutRef, timeouts>>
  /\ UNCHANGED <<syncVars, dbVars, call, hostVars>>

\* the timer surface is torn down: the cleanups of both effects run
Unmount ==
  /\ mounted
  /\ mounted' = FALSE
  /\ tickIntervals' = tickIntervals - (IF isRunning THEN 1 ELSE 0)
  /\ LET next == clearReminderTimeout(ReminderState)
     IN  reminderTimeoutRef' = next.ref /\ timeouts' = next.live
  /\ Silent
  /\ Record("Unmount")
  /\ UNCHANGED <<timerVars, config, sessionEvents, runStartedFresh, isRunningRef>>
  /\ UNCHANGED <<syncVars, dbVars, call, hostVars>>

NextTimer ==
  \/ Tick
  \/ toggleRunning
  \/ requestModeSwitch
  \/ confirmModeSwitch
  \/ cancelModeSwitch
  \/ \E value \in ChangedInputs : ConfigurationChanged(value)

SpecTimer == Init /\ [][NextTimer]_vars

\* the timer state machine alone: Tick and the four commands of the window
NextMachine ==
  \/ Tick
  \/ toggleRunning
  \/ requestModeSwitch
  \/ confirmModeSwitch
  \/ cancelModeSwitch

SpecMachine == Init /\ [][NextMachine]_vars

\* the timer with its idle reminder, the passing of time and the teardown
NextReminder ==
  \/ Tick
  \/ toggleRunning
  \/ requestModeSwitch
  \/ confirmModeSwitch
  \/ cancelModeSwitch
  \/ TimePasses
  \/ \E id \in DOMAIN timeouts : ReminderFires(id)
  \/ Unmount

SpecReminder == Init /\ [][NextReminder]_vars

\* configurations that switch the metronome on and off
MetronomeInputs ==
  {[DEFAULT_CONFIG EXCEPT !.playTick = TRUE], [DEFAULT_CONFIG EXCEPT !.playTick = FALSE]}

\* the timer with the metronome switched on and off while it runs and pauses
NextMetronome ==
  \/ Tick
  \/ toggleRunning
  \/ \E value \in MetronomeInputs : ConfigurationChanged(value)

SpecMetronome == Init /\ [][NextMetronome]_vars

\* the timer with all its commands and the metronome setting changing
NextInterval ==
  \/ Tick
  \/ toggleRunning
  \/ requestModeSwitch
  \/ confirmModeSwitch
  \/ cancelModeSwitch
  \/ \E value \in MetronomeInputs : ConfigurationChanged(value)

SpecInterval == Init /\ [][NextInterval]_vars

\* what useAppConfig.updateConfig sends to config:set
sanitize(value) ==
  [key \in DOMAIN value |->
     IF key \in {"focusMinutes", "breakMinutes"}
       THEN clampTimerMinutes(value[key])
       ELSE value[key]]

\* the setConfig updater of updateConfig
optimistic(prevConfig, sanitized) ==
  [Spread(prevConfig, sanitized) EXCEPT
     !.ambientVolumes =
        IF Has(sanitized, "ambientVolumes")
          THEN Spread(prevConfig.ambientVolumes, sanitized.ambientVolumes)
          ELSE prevConfig.ambientVolumes]

SeqSum(f, S) ==
  LET RECURSIVE Sum(_)
      Sum(T) == IF T = {} THEN 0
                ELSE LET x == CHOOSE y \in T : TRUE IN Len(f[x]) + Sum(T \ {x})
  IN  Sum(S)

\* messages that are or will be in the inbox of window w
InFlight(w) ==
  Len(inbox[w]) + SeqSum(outbox, Windows) + (IF getPending[w] THEN 1 ELSE 0)

updateConfig(w, value) ==
  /\ \A x \in Windows : InFlight(x) < MaxInFlight
  /\ config' = [config EXCEPT ![w] = optimistic(config[w], sanitize(value))]
  /\ outbox' = [outbox EXCEPT ![w] = Append(outbox[w], sanitize(value))]
  /\ lastEvent' = "updateConfig"
  /\ UNCHANGED <<surfaceVars, dbVars, call, hostVars, configStore, inbox, getPending, lastSet,
                 storeBefore, lastBroadcast>>

(***************************************************************************)
(* main process                                                            *)
(***************************************************************************)
getConfig == configStore

broadcastConfig(cfg) ==
  /\ inbox' = [x \in Windows |-> Append(inbox[x], cfg)]
  /\ lastBroadcast' = cfg

\* ipcMain.handle("config:get") for the mount-time request of window w
HandleConfigGet(w) ==
  /\ getPending[w]
  /\ getPending' = [getPending EXCEPT ![w] = FALSE]
  /\ inbox' = [inbox EXCEPT ![w] = Append(inbox[w], getConfig)]
  /\ lastEvent' = "config:get"
  /\ UNCHANGED <<surfaceVars, dbVars, call, hostVars, config, configStore, outbox, lastSet, storeBefore,
                 lastBroadcast>>

mergeConfigReplacesAmbient(current, value) ==
  LET nextFocusMinutes == IF ~Has(value, "focusMinutes") THEN current.focusMinutes
                          ELSE clampTimerMinutes(value.focusMinutes)
      nextBreakMinutes == IF ~Has(value, "breakMinutes") THEN current.breakMinutes
                          ELSE clampTimerMinutes(value.breakMinutes)
  IN  [Spread(current, value) EXCEPT
         !.focusMinutes = nextFocusMinutes,
         !.breakMinutes = nextBreakMinutes,
         !.ambientVolumes =
            Spread(DEFAULT_AMBIENT_VOLUMES, OrEmpty(value, "ambientVolumes"))]

\* the merge of the config:set handler
mergeConfig(current, value) ==
  LET nextFocusMinutes == IF ~Has(value, "focusMinutes") THEN current.focusMinutes
                          ELSE clampTimerMinutes(value.focusMinutes)
      nextBreakMinutes == IF ~Has(value, "breakMinutes") THEN current.breakMinutes
                          ELSE clampTimerMinutes(value.breakMinutes)
  IN  [Spread(current, value) EXCEPT
         !.focusMinutes = nextFocusMinutes,
         !.breakMinutes = nextBreakMinutes,
         !.ambientVolumes =
            Spread(current.ambientVolumes, OrEmpty(value, "ambientVolumes"))]

\* the handler without the caller among the receivers of the broadcast
HandleConfigSetSkipsCaller(w) ==
  /\ outbox[w] # <<>>
  /\ LET nextConfig == mergeConfig(getConfig, Head(outbox[w]))
     IN  /\ configStore' = nextConfig
         /\ inbox' = [x \in Windows |->
                        IF x = w THEN inbox[x] ELSE Append(inbox[x], nextConfig)]
         /\ lastBroadcast' = nextConfig
  /\ outbox' = [outbox EXCEPT ![w] = Tail(outbox[w])]
  /\ lastSet' = Head(outbox[w])
  /\ storeBefore' = configStore
  /\ lastEvent' = "config:set"
  /\ UNCHANGED <<surfaceVars, dbVars, call, hostVars, config, getPending>>

\* ipcMain.handle("config:set") for the oldest invocation of window w
HandleConfigSet(w) ==
  /\ outbox[w] # <<>>
  /\ LET nextConfig == mergeConfig(getConfig, Head(outbox[w]))
     IN  /\ configStore' = nextConfig
         /\ broadcastConfig(nextConfig)
  /\ outbox' = [outbox EXCEPT ![w] = Tail(outbox[w])]
  /\ lastSet' = Head(outbox[w])
  /\ storeBefore' = configStore
  /\ lastEvent' = "config:set"
  /\ UNCHANGED <<surfaceVars, dbVars, call, hostVars, config, getPending>>

\* the handler with the broadcast sent ahead of a write that then throws
HandleConfigSetFailsAfterBroadcast(w) ==
  /\ outbox[w] # <<>>
  /\ broadcastConfig(mergeConfig(getConfig, Head(outbox[w])))
  /\ outbox' = [outbox EXCEPT ![w] = Tail(outbox[w])]
  /\ lastSet' = Head(outbox[w])
  /\ storeBefore' = configStore
  /\ lastEvent' = "config:set failed"
  /\ UNCHANGED <<surfaceVars, dbVars, call, hostVars, config, configStore, getPending>>

\* the failure answered by putting the caller back on the stored configuration
HandleConfigSetFailsRollsBack(w) ==
  /\ outbox[w] # <<>>
  /\ config' = [config EXCEPT ![w] = normalizeConfig(getConfig)]
  /\ outbox' = [outbox EXCEPT ![w] = Tail(outbox[w])]
  /\ lastSet' = Head(outbox[w])
  /\ storeBefore' = configStore
  /\ lastBroadcast' = << >>
  /\ lastEvent' = "config:set failed"
  /\ UNCHANGED <<surfaceVars, dbVars, call, hostVars, configStore, inbox, getPending>>

\* ipcMain.handle("config:set") when configStore.set throws: the handler
\* ends before broadcastConfig, the invocation rejects and the caller's
\* catch only logs
HandleConfigSetFails(w) ==
  /\ outbox[w] # <<>>
  /\ outbox' = [outbox EXCEPT ![w] = Tail(outbox[w])]
  /\ lastSet' = Head(outbox[w])
  /\ storeBefore' = configStore
  /\ lastBroadcast' = << >>
  /\ lastEvent' = "config:set failed"
  /\ UNCHANGED <<surfaceVars, dbVars, call, hostVars, config, configStore, inbox, getPending>>

\* window w receives the oldest message of its channel: the reply to its
\* api.get() or a config:changed broadcast; both end in setConfig(normalizeConfig(..))
DeliverConfig(w) ==
  /\ inbox[w] # <<>>
  /\ onChange(w, Head(inbox[w]))
  /\ inbox' = [inbox EXCEPT ![w] = Tail(inbox[w])]
  /\ lastEvent' = "deliver"
  /\ UNCHANGED <<surfaceVars, dbVars, call, hostVars, configStore, outbox, getPending, lastSet,
                 storeBefore, lastBroadcast>>

NextConfig ==
  \/ \E w \in Windows, value \in PartialInputs : updateConfig(w, value)
  \/ \E w \in Windows : HandleConfigGet(w)
  \/ \E w \in Windows : HandleConfigSet(w)
  \/ \E w \in Windows : DeliverConfig(w)

SpecConfig == Init /\ [][NextConfig]_vars

\* partial updates whose write may fail
FailInputs == {[focusMinutes |-> Fin(121)], [playTick |-> TRUE]}

\* the same protocol with durable writes that may fail
NextConfigFail ==
  \/ \E w \in Windows, value \in FailInputs : updateConfig(w, value)
  \/ \E w \in Windows : HandleConfigGet(w)
  \/ \E w \in Windows : HandleConfigSet(w)
  \/ \E w \in Windows : HandleConfigSetFails(w)
  \/ \E w \in Windows : DeliverConfig(w)

SpecConfigFail == Init /\ [][NextConfigFail]_vars

(***************************************************************************)
(* Ambient volumes: the sliders of the settings window                     *)
(***************************************************************************)
\* the sounds whose slider is moved
SliderSounds == {"rain"}

\* values handed to handleAmbientChange: in range, above and below it
SliderInputs == {Fin(20), Fin(150), Fin(0 - 5)}

\* partial values that name one ambient key, or no ambient key at all
AmbientPartialInputs ==
  {[ambientVolumes |-> [fire |-> Fin(40)]], [playTick |-> TRUE]}

handleAmbientChangeUnclamped(sound, value) ==
  updateConfig("settings",
    [ambientVolumes |-> [config["settings"].ambientVolumes EXCEPT ![sound] = value]])

handleAmbientChange(sound, value) ==
  LET clamped == MathMin(Fin(100), MathMax(Fin(0), value))
  IN  updateConfig("settings",
        [ambientVolumes |->
           [config["settings"].ambientVolumes EXCEPT ![sound] = clamped]])

NextAmbient ==
  \/ \E sound \in SliderSounds, value \in SliderInputs : handleAmbientChange(sound, value)
  \/ \E w \in Windows, value \in AmbientPartialInputs : updateConfig(w, value)
  \/ \E w \in Windows : HandleConfigGet(w)
  \/ \E w \in Windows : HandleConfigSet(w)
  \/ \E w \in Windows : DeliverConfig(w)

SpecAmbient == Init /\ [][NextAmbient]_vars

(***************************************************************************)
(* lib/pomodoro.ts called on its own                                       *)
(***************************************************************************)
\* largest minutes value handed to the functions
MaxMinutesInput == 123

\* the integers handed to the functions: some below 1, 1..120, some above
MinutesRange == (0 - 2)..MaxMinutesInput

CallInputs ==
  {[NoCall EXCEPT !.mode = m, !.focusMinutes = Fin(f), !.breakMinutes = Fin(b)] :
     m \in Modes, f \in MinutesRange, b \in MinutesRange}

InitPomodoro == InitApp /\ call \in CallInputs /\ InitDb /\ InitHost

\* the minutes of the selected mode
Selected(c) == IF c.mode = "focus" THEN c.focusMinutes ELSE c.breakMinutes

CallClampTimerMinutes ==
  /\ call.fn = "none"
  /\ call' = [call EXCEPT !.fn = "clampTimerMinutes",
                          !.clamped = clampTimerMinutes(Selected(call))]
  /\ lastEvent' = "clampTimerMinutes"
  /\ UNCHANGED <<appVars, dbVars, hostVars>>

CallGetModeSeconds ==
  /\ call.fn = "none"
  /\ call' = [call EXCEPT !.fn = "getModeSeconds",
                          !.seconds = getModeSeconds(call.mode, call.focusMinutes,
                                                     call.breakMinutes)]
  /\ lastEvent' = "getModeSeconds"
  /\ UNCHANGED <<appVars, dbVars, hostVars>>

NextPomodoro == CallClampTimerMinutes \/ CallGetModeSeconds

SpecPomodoro == InitPomodoro /\ [][NextPomodoro]_vars

(***************************************************************************)
(* session-store.ts and the sessions:import handler.  A timestamp string   *)
(* is the number of milliseconds Date.parse gives for it; Invalid is a     *)
(* string Date.parse cannot read, NotAString a JSON value of another type. *)
(* A SessionRecord is a record with startedAt, endedAt and, optionally,    *)
(* focusSeconds and appUsage.  A focus_seconds value is a JavaScript       *)
(* number or Null.                                                         *)
(***************************************************************************)
Invalid == 0 - 1

NotAString == 0 - 2

Null == [k |-> "null", h |-> 0]

\* most rows the sessions table is let grow to
MaxRows == 2

\* Date.parse
DateParse(t) == IF t >= 0 THEN Fin(t) ELSE NaN

\* Math.round(ms / 1000)
RoundedSeconds(ms) == (ms + 500) \div 1000

\* a reduce that adds up the rounded differences whatever their sign
calculateFocusSecondsSigned(segments) ==
  LET RECURSIVE reduce(_, _)
      reduce(n, sum) ==
        IF n > Len(segments) THEN sum
        ELSE LET start == DateParse(segments[n].startedAt)
                 end == DateParse(segments[n].endedAt)
             IN  IF ~IsFinite(start) \/ ~IsFinite(end)
                   THEN reduce(n + 1, sum)
                   ELSE reduce(n + 1,
                          sum + RoundedSeconds((end.h - start.h) \div 2))
  IN  reduce(1, 0)

calculateFocusSeconds(segments) ==
  LET RECURSIVE reduce(_, _)
      reduce(n, sum) ==
        IF n > Len(segments) THEN sum
        ELSE LET start == DateParse(segments[n].startedAt)
                 end == DateParse(segments[n].endedAt)
             IN  IF ~IsFinite(start) \/ ~IsFinite(end) \/ end.h <= start.h
                   THEN reduce(n + 1, sum)
                   ELSE LET seconds == RoundedSeconds((end.h - start.h) \div 2)
                        IN  reduce(n + 1, sum + (IF seconds > 0 THEN seconds ELSE 0))
  IN  reduce(1, 0)

\* record.focusSeconds ?? (record.appUsage ? calculateFocusSeconds(..) : null)
FocusSecondsOf(record) ==
  IF Has(record, "focusSeconds") /\ record.focusSeconds # Null
    THEN record.focusSeconds
    ELSE IF Has(record, "appUsage")
           THEN Fin(calculateFocusSeconds(record.appUsage))
           ELSE Null

\* the segments of a record, none when it has no appUsage
SegmentsOf(record) == IF Has(record, "appUsage") THEN record.appUsage ELSE << >>

\* the row insertSession.run writes for record; its rowid follows the last one
SessionRow(id, record) ==
  [id |-> id, startedAt |-> record.startedAt, endedAt |-> record.endedAt,
   focusSeconds |-> FocusSecondsOf(record)]

\* the rows insertUsage.run writes for the segments of a session
UsageRows(sessionId, segments) ==
  [n \in 1..Len(segments) |->
     [sessionId |-> sessionId, appName |-> segments[n].appName,
      startedAt |-> segments[n].startedAt, endedAt |-> segments[n].endedAt]]

\* the database as a value
Db == [sessions |-> sessions, usage |-> usage]

\* addSession(record); failAt = 0: every statement succeeds, failAt = 1: the
\* insert of the session row throws, failAt = n + 1: the insert of the n-th
\* usage row throws inside the insertMany transaction, which rolls back
addSession(record, failAt) ==
  LET sessionId == Len(sessions) + 1
      segments == SegmentsOf(record)
  IN  /\ Len(sessions) < MaxRows
      /\ failAt \in 0..(Len(segments) + 1)
      /\ sessions' = IF failAt = 1 THEN sessions
                     ELSE Append(sessions, SessionRow(sessionId, record))
      /\ usage' = IF failAt = 0 THEN usage \o UsageRows(sessionId, segments)
                  ELSE usage
      /\ lastOp' = [op |-> "addSession", record |-> record, ok |-> failAt = 0,
                    returned |-> IF failAt = 0 THEN sessionId ELSE 0,
                    before |-> Db]
      /\ lastEvent' = "session:add"
      /\ UNCHANGED <<appVars, call, exported, hostVars>>

createSessionKey(record) == <<record.startedAt, record.endedAt>>

\* records.slice().sort(..) for records whose startedAt Date.parse can read:
\* a stable sort by time
sortByStartedAt(records) ==
  LET RECURSIVE insert(_, _)
      insert(sorted, record) ==
        IF sorted = <<>> THEN <<record>>
        ELSE IF sorted[Len(sorted)].startedAt <= record.startedAt
               THEN Append(sorted, record)
               ELSE Append(insert(SubSeq(sorted, 1, Len(sorted) - 1), record),
                           sorted[Len(sorted)])
      RECURSIVE sort(_)
      sort(n) == IF n = 0 THEN <<>> ELSE insert(sort(n - 1), records[n])
  IN  sort(Len(records))

\* the insert loop of mergeSessions and replaceSessions on database d
InsertRecords(d, records) ==
  LET RECURSIVE loop(_, _)
      loop(n, acc) ==
        IF n > Len(records) THEN acc
        ELSE LET sessionId == Len(acc.sessions) + 1
             IN  loop(n + 1,
                   [sessions |-> Append(acc.sessions, SessionRow(sessionId, records[n])),
                    usage |-> acc.usage \o
                                UsageRows(sessionId, SegmentsOf(records[n]))])
  IN  loop(1, d)

\* the filter of mergeSessions, with the key set it extends as it goes
UniqueEntries(keys, entries) ==
  LET RECURSIVE filter(_, _, _)
      filter(n, seen, kept) ==
        IF n > Len(entries) THEN kept
        ELSE LET key == createSessionKey(entries[n])
             IN  IF key \in seen THEN filter(n + 1, seen, kept)
                 ELSE filter(n + 1, seen \cup {key}, Append(kept, entries[n]))
  IN  filter(1, keys, <<>>)

\* a merge that only looks at the keys already stored
mergeSessionsStoredKeysOnly(d, entries) ==
  LET existingKeys == {createSessionKey(d.sessions[n]) : n \in DOMAIN d.sessions}
      uniqueEntries == SelectSeq(entries, LAMBDA r : createSessionKey(r) \notin existingKeys)
      sortedEntries == sortByStartedAt(uniqueEntries)
  IN  IF uniqueEntries = <<>> THEN [db |-> d, count |-> 0]
      ELSE [db |-> InsertRecords(d, sortedEntries), count |-> Len(sortedEntries)]

\* mergeSessions(entries) on database d: the database after it and its result
mergeSessions(d, entries) ==
  LET existingKeys == {createSessionKey(d.sessions[n]) : n \in DOMAIN d.sessions}
      uniqueEntries == UniqueEntries(existingKeys, entries)
      sortedEntries == sortByStartedAt(uniqueEntries)
  IN  IF uniqueEntries = <<>> THEN [db |-> d, count |-> 0]
      ELSE [db |-> InsertRecords(d, sortedEntries), count |-> Len(sortedEntries)]

\* replaceSessions(entries): both tables emptied and refilled in one transaction
replaceSessions(entries) ==
  InsertRecords([sessions |-> <<>>, usage |-> <<>>], entries)

\* a call of mergeSessions; with fails the insertMany transaction throws and
\* rolls back
MergeSessions(entries, fails) ==
  LET result == mergeSessions(Db, entries)
      threw == fails /\ result.count > 0
  IN  /\ Len(result.db.sessions) <= MaxRows
      /\ sessions' = IF threw THEN sessions ELSE result.db.sessions
      /\ usage' = IF threw THEN usage ELSE result.db.usage
      /\ lastOp' = [op |-> "mergeSessions", entries |-> entries, ok |-> ~threw,
                    returned |-> IF threw THEN 0 ELSE result.count, before |-> Db]
      /\ lastEvent' = "mergeSessions"
      /\ UNCHANGED <<appVars, call, exported, hostVars>>

\* SELECT ... ORDER BY started_at ASC: rows with equal times keep their order
OrderByStartedAt(rows) == sortByStartedAt(rows)

\* listAllSessions on database d: the sessions in time order, each with its
\* focus_seconds (a number or null) and its usage segments in time order
listAllSessions(d) ==
  LET rows == OrderByStartedAt(d.sessions)
      usageRows == OrderByStartedAt(d.usage)
      segmentsOf(id) ==
        LET own == SelectSeq(usageRows, LAMBDA row : row.sessionId = id)
        IN  [n \in 1..Len(own) |->
               [appName |-> own[n].appName, startedAt |-> own[n].startedAt,
                endedAt |-> own[n].endedAt]]
  IN  [n \in 1..Len(rows) |->
         [startedAt |-> rows[n].startedAt, endedAt |-> rows[n].endedAt,
          focusSeconds |-> rows[n].focusSeconds,
          appUsage |-> segmentsOf(rows[n].id)]]

\* the payload of sessions:export as JSON.parse reads it back
ExportPayload(d) == [kind |-> "object", version |-> 2, sessions |-> listAllSessions(d)]

\* the sessions:export handler; outcome is "canceled" (the save dialog was
\* dismissed), "write-failed" (writeFile throws) or "written"
ExportSessions(outcome) ==
  /\ exported' = IF outcome = "written" THEN ExportPayload(Db) ELSE exported
  /\ lastOp' = [op |-> "export", ok |-> outcome = "written",
                reason |-> IF outcome = "written" THEN "none" ELSE outcome,
                returned |-> IF outcome = "written" THEN Len(sessions) ELSE 0,
                before |-> Db]
  /\ lastEvent' = "sessions:export"
  /\ UNCHANGED <<sessions, usage>>
  /\ UNCHANGED <<appVars, call, hostVars>>

\* An import file.  kind is "canceled" (the dialog was dismissed),
\* "unreadable" (readFile throws), "broken" (JSON.parse throws), "scalar" (the
\* parsed root is no object) or "object"; an object has a sessions array when
\* the field is there.  An entry of the array is a record; [notObject |-> TRUE]
\* stands for an entry that is no object.
IsString(t) == t # NotAString

WellFormedSegment(segment) ==
  /\ ~Has(segment, "notObject")
  /\ Has(segment, "appName") /\ Has(segment, "startedAt") /\ Has(segment, "endedAt")
  /\ IsString(segment.startedAt) /\ IsString(segment.endedAt)

WellFormedEntry(entry) ==
  /\ ~Has(entry, "notObject")
  /\ Has(entry, "startedAt") /\ Has(entry, "endedAt")
  /\ IsString(entry.startedAt) /\ IsString(entry.endedAt)

\* the SessionRecord the map callback builds from a well-formed entry
CandidateRecord(entry) ==
  Spread(Spread([startedAt |-> entry.startedAt, endedAt |-> entry.endedAt],
                IF Has(entry, "focusSeconds") /\ IsFinite(entry.focusSeconds)
                  THEN [focusSeconds |-> entry.focusSeconds] ELSE << >>),
         IF Has(entry, "appUsage")
           THEN [appUsage |-> SelectSeq(entry.appUsage, WellFormedSegment)]
           ELSE << >>)

extractSessionRecords(payload) ==
  IF payload.kind # "object" \/ ~Has(payload, "sessions")
    THEN [records |-> << >>, recognized |-> FALSE, sourceCount |-> 0]
    ELSE LET kept == SelectSeq(payload.sessions, WellFormedEntry)
         IN  [records |-> [n \in 1..Len(kept) |-> CandidateRecord(kept[n])],
              recognized |-> TRUE,
              sourceCount |-> Len(payload.sessions)]

\* the outcome of the sessions:import handler on database d: the database
\* after it and the value it returns
ImportOutcome(d, file, importMode, fails) ==
  LET extracted == extractSessionRecords(file)
      records == extracted.records
      rejected(reason) == [db |-> d, ok |-> FALSE, reason |-> reason, count |-> 0]
  IN  IF file.kind = "canceled" THEN rejected("canceled")
      ELSE IF file.kind = "unreadable" THEN rejected("read-failed")
      ELSE IF file.kind = "broken" THEN rejected("invalid-format")
      ELSE IF ~extracted.recognized \/ (extracted.sourceCount > 0 /\ Len(records) = 0)
        THEN rejected("invalid-format")
      ELSE IF importMode = "overwrite"
        THEN IF fails THEN rejected("write-failed")
             ELSE [db |-> replaceSessions(records), ok |-> TRUE, reason |-> "none",
                   count |-> Len(records)]
      ELSE LET merged == mergeSessions(d, records)
           IN  IF fails /\ merged.count > 0 THEN rejected("write-failed")
               ELSE [db |-> merged.db, ok |-> TRUE, reason |-> "none",
                     count |-> merged.count]

ImportSessions(file, importMode, fails) ==
  LET outcome == ImportOutcome(Db, file, importMode, fails)
  IN  /\ Len(outcome.db.sessions) <= MaxRows
      /\ sessions' = outcome.db.sessions
      /\ usage' = outcome.db.usage
      /\ lastOp' = [op |-> "import", file |-> file, mode |-> importMode,
                    ok |-> outcome.ok, reason |-> outcome.reason,
                    returned |-> outcome.count, before |-> Db]
      /\ lastEvent' = "sessions:import"
      /\ UNCHANGED <<appVars, call, exported, hostVars>>

\* the records, entries and files the operations are tried with
SegA == [appName |-> "editor", startedAt |-> 0, endedAt |-> 1600]

SegB == [appName |-> "browser", startedAt |-> 1600, endedAt |-> 3000]

SegBackwards == [appName |-> "browser", startedAt |-> 3000, endedAt |-> 1600]

SegUnparsable == [appName |-> "editor", startedAt |-> Invalid, endedAt |-> 3000]

SegHalf == [appName |-> "editor", startedAt |-> 0, endedAt |-> 400]

RecA == [startedAt |-> 5000, endedAt |-> 8000]

RecB == [startedAt |-> 0, endedAt |-> 3000, appUsage |-> <<SegA, SegB>>]

RecC == [startedAt |-> 9000, endedAt |-> 9500, focusSeconds |-> Fin(7),
         appUsage |-> <<SegA>>]

AddInputs ==
  { RecA, RecB, RecC,
    [startedAt |-> 0, endedAt |-> 3000, appUsage |-> <<SegA, SegBackwards>>],
    [startedAt |-> 0, endedAt |-> 3000, appUsage |-> <<SegUnparsable, SegHalf, SegB>>],
    [startedAt |-> 0, endedAt |-> 3000, focusSeconds |-> Null, appUsage |-> <<SegB>>],
    [startedAt |-> 5000, endedAt |-> 8000, focusSeconds |-> Null] }

MergeInputs ==
  { <<RecA>>, <<RecA, RecA>>, <<RecA, RecB>>, <<RecC, RecB, RecC>>, << >> }

JunkEntry == [notObject |-> TRUE]

UntypedEntry == [startedAt |-> NotAString, endedAt |-> 8000]

ImportFiles ==
  { [kind |-> "canceled"], [kind |-> "unreadable"], [kind |-> "broken"],
    [kind |-> "scalar"], [kind |-> "object"],
    [kind |-> "object", sessions |-> << >>],
    [kind |-> "object", sessions |-> <<JunkEntry>>],
    [kind |-> "object", sessions |-> <<RecA, UntypedEntry>>],
    [kind |-> "object", sessions |-> <<RecB, RecA>>],
    [kind |-> "object", sessions |->
       <<[startedAt |-> 5000, endedAt |-> 8000, focusSeconds |-> Null,
          appUsage |-> <<SegA, [appName |-> "editor", startedAt |-> NotAString,
                                 endedAt |-> 3000]>>]>>] }

NextSessions ==
  \/ \E record \in AddInputs : \E failAt \in 0..4 : addSession(record, failAt)
  \/ \E entries \in MergeInputs : \E fails \in BOOLEAN : MergeSessions(entries, fails)
  \/ \E file \in ImportFiles : \E importMode \in {"merge", "overwrite"} :
       \E fails \in BOOLEAN : ImportSessions(file, importMode, fails)

SpecSessions == Init /\ [][NextSessions]_vars

\* sessions recorded, exported and the export imported again
TransferInputs == {RecA, RecB, RecC}

NextTransfer ==
  \/ \E record \in TransferInputs : addSession(record, 0)
  \/ \E outcome \in {"canceled", "write-failed", "written"} : ExportSessions(outcome)
  \/ /\ exported # NoFile
     /\ \E importMode \in {"merge", "overwrite"} : \E fails \in BOOLEAN :
          ImportSessions(exported, importMode, fails)

SpecTransfer == Init /\ [][NextTransfer]_vars

(***************************************************************************)
(* The main window of the main process: createWindow, its close and closed *)
(* handlers, the confirmation dialog and focus-session:set-active.         *)
(***************************************************************************)
\* most confirmation dialogs open at a time
MaxDialogs == 3

\* the main process's view of the main window
WinState ==
  [mainWindow |-> mainWindow, active |-> hasActiveFocusSession,
   bypass |-> isBypassingCloseConfirmation, dialogs |-> dialogs,
   quit |-> quitChosen]

\* a closed handler that leaves the bypass flag as it is
WindowClosedKeepsBypass ==
  /\ hasActiveFocusSession' = FALSE
  /\ mainWindow' = FALSE
  /\ closePending' = FALSE
  /\ UNCHANGED <<isBypassingCloseConfirmation, dialogs, quitChosen>>

\* the window is destroyed and its "closed" handler runs
WindowClosed ==
  /\ hasActiveFocusSession' = FALSE
  /\ isBypassingCloseConfirmation' = FALSE
  /\ mainWindow' = FALSE
  /\ closePending' = FALSE
  /\ UNCHANGED <<dialogs, quitChosen>>

\* a close handler that asks nothing
CloseEventNoConfirmation(source) ==
  /\ mainWindow
  /\ source = "quit" => closePending
  /\ WindowClosed
  /\ lastWin' = [op |-> "close", source |-> source, before |-> WinState]
  /\ lastEvent' = "close"
  /\ UNCHANGED <<appVars, dbVars, call, topVars>>

\* the "close" event of the main window.  source is "user" (the close button,
\* the menu, app.quit()) or "quit" (the mainWindow.close() after Quit was chosen)
CloseEvent(source) ==
  /\ mainWindow
  /\ source = "quit" => closePending
  /\ IF isBypassingCloseConfirmation \/ ~hasActiveFocusSession
       THEN WindowClosed
       ELSE /\ dialogs < MaxDialogs
            /\ dialogs' = dialogs + 1
            /\ closePending' = (closePending /\ source # "quit")
            /\ UNCHANGED <<mainWindow, hasActiveFocusSession,
                           isBypassingCloseConfirmation, quitChosen>>
  /\ lastWin' = [op |-> "close", source |-> source, before |-> WinState]
  /\ lastEvent' = "close"
  /\ UNCHANGED <<appVars, dbVars, call, topVars>>

\* showCloseConfirmationDialog resolves and the rest of the close handler runs
DialogAnswered(choice) ==
  /\ dialogs > 0
  /\ dialogs' = dialogs - 1
  /\ IF choice = "Quit" /\ mainWindow
       THEN /\ isBypassingCloseConfirmation' = TRUE
            /\ closePending' = TRUE
            /\ quitChosen' = TRUE
       ELSE UNCHANGED <<isBypassingCloseConfirmation, closePending, quitChosen>>
  /\ lastWin' = [op |-> "answer", choice |-> choice, before |-> WinState]
  /\ lastEvent' = "answer"
  /\ UNCHANGED <<mainWindow, hasActiveFocusSession>>
  /\ UNCHANGED <<appVars, dbVars, call, topVars>>

\* focus-session:set-active from the main window's renderer or from another one
SetActive(sender, isActive) ==
  /\ hasActiveFocusSession' =
       IF sender = "main" /\ mainWindow THEN isActive ELSE hasActiveFocusSession
  /\ lastWin' = [op |-> "set-active", sender |-> sender, isActive |-> isActive,
                 before |-> WinState]
  /\ lastEvent' = "focus-session:set-active"
  /\ UNCHANGED <<mainWindow, isBypassingCloseConfirmation, dialogs, closePending,
                 quitChosen>>
  /\ UNCHANGED <<appVars, dbVars, call, topVars>>

\* app "activate" with no window left: createWindow makes a new main window
Activate ==
  /\ ~mainWindow
  /\ mainWindow' = TRUE
  /\ quitChosen' = FALSE
  /\ isAlwaysOnTop' = FALSE
  /\ lastWin' = [op |-> "activate", before |-> WinState]
  /\ lastEvent' = "activate"
  /\ UNCHANGED <<hasActiveFocusSession, isBypassingCloseConfirmation, dialogs,
                 closePending>>
  /\ UNCHANGED <<appVars, dbVars, call, topValue, requests, replies>>

NextWindow ==
  \/ \E source \in {"user", "quit"} : CloseEvent(source)
  \/ \E choice \in {"Keep Session", "Quit"} : DialogAnswered(choice)
  \/ \E sender \in {"main", "other"} : \E isActive \in BOOLEAN : SetActive(sender, isActive)
  \/ Activate

SpecWindow == Init /\ [][NextWindow]_vars

(***************************************************************************)
(* useAlwaysOnTop and the always-on-top handlers of the main process.      *)
(* Invocations are handled in the order they were sent and their results   *)
(* reach the window in that order.                                         *)
(***************************************************************************)
\* most invocations under way at a time
MaxPending == 3

Pending == Len(requests) + Len(replies)

\* setAlwaysOnTop(next) up to its await: the value shown changes at once and
\* the value of this render is kept as `previous`
SetAlwaysOnTop(next) ==
  /\ Pending < MaxPending
  /\ topValue' = next
  /\ requests' = Append(requests, [kind |-> "set", next |-> next, previous |-> topValue])
  /\ lastEvent' = "setAlwaysOnTop"
  /\ UNCHANGED <<isAlwaysOnTop, replies>>
  /\ UNCHANGED <<appVars, dbVars, call, mainVars>>

\* the main process takes up the oldest invocation; with fails it is rejected
\* and the window's state is left alone
HandleAlwaysOnTop(fails) ==
  /\ requests # << >>
  /\ LET request == Head(requests)
         applied == request.kind = "set" /\ ~fails /\ mainWindow
         result == IF ~mainWindow THEN FALSE
                   ELSE IF applied THEN request.next ELSE isAlwaysOnTop
     IN  /\ isAlwaysOnTop' = IF applied THEN request.next ELSE isAlwaysOnTop
         /\ replies' = Append(replies,
                         [kind |-> request.kind, ok |-> ~fails, result |-> result,
                          previous |-> IF request.kind = "set" THEN request.previous
                                       ELSE FALSE])
  /\ requests' = Tail(requests)
  /\ lastEvent' = "always-on-top"
  /\ UNCHANGED topValue
  /\ UNCHANGED <<appVars, dbVars, call, mainVars>>

\* the promise of the oldest handled invocation settles in the window
DeliverAlwaysOnTop ==
  /\ replies # << >>
  /\ LET reply == Head(replies)
     IN  topValue' = IF reply.ok THEN reply.result
                     ELSE IF reply.kind = "set" THEN reply.previous
                     ELSE topValue
  /\ replies' = Tail(replies)
  /\ lastEvent' = "settled"
  /\ UNCHANGED <<isAlwaysOnTop, requests>>
  /\ UNCHANGED <<appVars, dbVars, call, mainVars>>

NextTop ==
  \/ \E next \in BOOLEAN : SetAlwaysOnTop(next)
  \/ \E fails \in BOOLEAN : HandleAlwaysOnTop(fails)
  \/ DeliverAlwaysOnTop

SpecTop == Init /\ [][NextTop]_vars

(***************************************************************************)
(* Properties of the timer state machine (checked under SpecTimer)         *)
(***************************************************************************)
Completed == lastEvent = "Tick" /\ prev.remaining <= 1

C2_CompletionStops ==
  Completed =>
    /\ mode = Opposite(prev.mode)
    /\ isRunning = FALSE
    /\ remaining = MODES[mode].seconds

C2_Witness == Completed /\ prev.isRunning /\ prev.mode = "focus" /\ mode = "break"

\* C3: Request-Mode-Switch on a running timer, or on one whose remaining
\* differs from the total of its mode, only sets pending-mode to the opposite
\* mode; on an idle timer at its full total it switches at once and does not
\* touch pending-mode (a null pending-mode stays null).
C3_RequestModeSwitch ==
  lastEvent = "Request" =>
    IF prev.isRunning \/ prev.remaining # prev.total
      THEN /\ pendingMode = Opposite(prev.mode)
           /\ mode = prev.mode
           /\ remaining = prev.remaining
           /\ isRunning = prev.isRunning
      ELSE /\ mode = Opposite(prev.mode)
           /\ remaining = MODES[mode].seconds
           /\ isRunning = FALSE
           /\ pendingMode = prev.pendingMode

C3_Witness ==
  /\ lastEvent = "Request"
  /\ ~prev.isRunning /\ prev.remaining < prev.total
  /\ pendingMode = "break" /\ mode = "focus"

\* C4: Confirm-Switch with a pending mode makes it the mode, at its full total,
\* stopped, and clears pending-mode; without a pending mode it changes nothing.
C4_ConfirmSwitch ==
  lastEvent = "Confirm" =>
    IF prev.pendingMode # "null"
      THEN /\ mode = prev.pendingMode
           /\ remaining = MODES[prev.pendingMode].seconds
           /\ isRunning = FALSE
           /\ pendingMode = "null"
      ELSE /\ mode = prev.mode
           /\ remaining = prev.remaining
           /\ isRunning = prev.isRunning
           /\ pendingMode = "null"

C4_Witness ==
  /\ lastEvent = "Confirm"
  /\ prev.pendingMode = "break" /\ prev.isRunning /\ prev.remaining < prev.total
  /\ mode = "break"

\* C5: Cancel-Switch clears pending-mode and leaves mode, remaining and
\* is-running as they were, in every state.
C5_CancelSwitch ==
  lastEvent = "Cancel" =>
    /\ pendingMode = "null"
    /\ mode = prev.mode
    /\ remaining = prev.remaining
    /\ isRunning = prev.isRunning

C5_Witness ==
  /\ lastEvent = "Cancel"
  /\ prev.pendingMode # "null" /\ prev.isRunning /\ prev.remaining < prev.total

\* C6: the Tick that completes a Focus run started fresh emits one
\* completed-session event; the Tick that completes a Break emits none.
C6_SessionEmittedOnFocusCompletion ==
  Completed =>
    IF prev.mode = "focus" /\ prev.startedFresh
      THEN Len(sessionEvents) = prev.sessionCount + 1
      ELSE prev.mode = "break" => Len(sessionEvents) = prev.sessionCount

\* C7: Configuration-Changed on an idle timer whose remaining equals the old
\* configured total of its mode makes remaining the new configured total.
C7_SnapToNewTotal ==
  (lastEvent = "ConfigChanged" /\ ~prev.isRunning
     /\ prev.remaining = prev.configuredTotal)
    => remaining = ConfiguredTotal(mode, config["timer"])

\* C8: Configuration-Changed on an idle timer whose remaining exceeds the new
\* configured total of its mode clamps remaining down to that total.
C8_ClampToNewTotal ==
  (lastEvent = "ConfigChanged" /\ ~prev.isRunning
     /\ prev.remaining > ConfiguredTotal(mode, config["timer"]))
    => remaining = ConfiguredTotal(mode, config["timer"])

\* C9: Configuration-Changed leaves remaining unchanged while the timer runs,
\* and also while it is idle with partial progress and the new configured
\* total is still at least remaining.
C9_ProgressPreserved ==
  (lastEvent = "ConfigChanged"
     /\ \/ prev.isRunning
        \/ /\ prev.remaining # prev.configuredTotal
           /\ ConfiguredTotal(mode, config["timer"]) >= prev.remaining)
    => remaining = prev.remaining

C9_Witness ==
  /\ lastEvent = "ConfigChanged"
  /\ ~prev.isRunning /\ prev.remaining = 754 /\ prev.configuredTotal = 1500
  /\ ConfiguredTotal(mode, config["timer"]) = 1800
  /\ remaining = 754

(***************************************************************************)
(* Properties of configuration synchronisation (checked under SpecConfig)  *)
(***************************************************************************)
ValidMinutes(x) ==
  IsInteger(x) /\ Fin(MIN_TIMER_MINUTES).h <= x.h /\ x.h <= Fin(MAX_TIMER_MINUTES).h

\* C10: after any sequence of configuration updates with arbitrary numeric
\* inputs, focus-minutes and break-minutes in the durable store and in every
\* window's configuration are integers in [1, 120]; every update is taken:
\* the store holds the clamped value of each minutes field the update named.
C10_MinutesClamped ==
  /\ lastEvent = "config:set" =>
       \A key \in {"focusMinutes", "breakMinutes"} \cap DOMAIN lastSet :
         configStore[key] = clampTimerMinutes(lastSet[key])
  /\ ValidMinutes(configStore.focusMinutes)
  /\ ValidMinutes(configStore.breakMinutes)
  /\ \A w \in Windows :
       ValidMinutes(config[w].focusMinutes) /\ ValidMinutes(config[w].breakMinutes)

\* a fractional input (25.5) and a non-finite input (-Infinity) have been
\* stored and have reached the timer window
C10_Witness ==
  /\ configStore.focusMinutes = Fin(26)
  /\ configStore.breakMinutes = Fin(MIN_TIMER_MINUTES)
  /\ config["timer"] = configStore
  /\ lastEvent = "deliver"

(***************************************************************************)
(* Properties of the ambient volumes (checked under SpecAmbient)           *)
(***************************************************************************)
\* C11: after any sequence of configuration updates every ambient volume
\* in the stored configuration is an integer between 0 and 100.
C11_AmbientVolumesInRange ==
  \A sound \in DOMAIN configStore.ambientVolumes :
    LET volume == configStore.ambientVolumes[sound]
    IN  IsInteger(volume) /\ volume.h >= 0 /\ volume.h <= 2 * 100

\* a slider value above the range has been requested and stored as 100
C11_Witness ==
  /\ lastEvent = "config:set"
  /\ Has(lastSet, "ambientVolumes")
  /\ lastSet.ambientVolumes.rain = Fin(100)
  /\ configStore.ambientVolumes.rain = Fin(100)

\* C12: a configuration update changes only what its partial value names:
\* a top-level field absent from the partial keeps its stored value, an
\* ambient-volume key absent from the partial's ambient volumes keeps its
\* stored value, and an ambient-volume key that is named takes the new value.
C12_PartialUpdateFrame ==
  lastEvent = "config:set" =>
    LET named == OrEmpty(lastSet, "ambientVolumes")
    IN  /\ \A key \in DOMAIN configStore \ DOMAIN lastSet :
              configStore[key] = storeBefore[key]
        /\ \A sound \in DOMAIN configStore.ambientVolumes \ DOMAIN named :
              configStore.ambientVolumes[sound] = storeBefore.ambientVolumes[sound]
        /\ \A sound \in DOMAIN named :
              configStore.ambientVolumes[sound] = named[sound]

\* {fire: 40} has been merged onto {fire: 0, rain: 20, forest: 0}
C12_Witness ==
  /\ lastEvent = "config:set"
  /\ lastSet = [ambientVolumes |-> [fire |-> Fin(40)]]
  /\ storeBefore.ambientVolumes = [fire |-> Fin(0), rain |-> Fin(20), forest |-> Fin(0)]
  /\ configStore.ambientVolumes = [fire |-> Fin(40), rain |-> Fin(20), forest |-> Fin(0)]

(***************************************************************************)
(* Properties of the synchronisation protocol                              *)
(***************************************************************************)
\* the last message put on the channel of window w
LastSent(w) == inbox[w][Len(inbox[w])]

\* C13: on every configuration update the merged configuration is in the
\* durable store before any broadcast is sent (whatever an update broadcasts
\* is what the store holds, and an update whose write fails broadcasts
\* nothing), and after a successful update every window other than the
\* caller has been sent the full merged configuration (checked under
\* SpecConfigFail).
C13_WriteBeforeBroadcast ==
  /\ lastEvent \in {"config:set", "config:set failed"} /\ DOMAIN lastBroadcast # {} =>
        lastBroadcast = configStore
  /\ lastEvent = "config:set failed" => configStore = storeBefore
  /\ lastEvent = "config:set" =>
        /\ configStore = mergeConfig(storeBefore, lastSet)
        /\ lastBroadcast = configStore
        /\ \A w \in Windows : inbox[w] # <<>> /\ LastSent(w) = configStore

\* an update that changed the store has been written and sent to both windows
C13_Witness ==
  /\ lastEvent = "config:set"
  /\ configStore # storeBefore
  /\ \A w \in Windows : inbox[w] # <<>> /\ LastSent(w) = configStore

\* nothing is on its way: no request, no reply, no broadcast
Quiescent ==
  \A w \in Windows : outbox[w] = <<>> /\ inbox[w] = <<>> /\ ~getPending[w]

C15_NoRollback ==
  [][lastEvent' = "config:set failed" => config' = config]_vars

\* the write of focusMinutes 121 failed: the settings window shows 120, the
\* store still has the default
C15_Witness ==
  /\ lastEvent = "config:set failed"
  /\ lastSet = [focusMinutes |-> Fin(MAX_TIMER_MINUTES)]
  /\ Quiescent
  /\ config["settings"].focusMinutes = Fin(MAX_TIMER_MINUTES)
  /\ configStore.focusMinutes = Fin(DEFAULT_FOCUS_MINUTES)

(***************************************************************************)
(* Properties of the idle reminder and the teardown (checked under         *)
(* SpecReminder)                                                           *)
(***************************************************************************)
ReminderCue == Cue("reminder", "reminder")

\* the last operation played cue
Played(cue) == \E n \in DOMAIN sounds : sounds[n] = cue

\* exactly one timeout is live, the ref holds it and none of its interval is used
FreshReminderTimer ==
  /\ reminderTimeoutRef # 0
  /\ DOMAIN timeouts = {reminderTimeoutRef}
  /\ timeouts[reminderTimeoutRef] = 0

\* C16: the reminder cue is never played while the timer is running, and
\* while it is running no reminder timer is pending: every transition to
\* running cancelled it.
C16_NoReminderWhileRunning ==
  /\ Played(ReminderCue) => ~isRunning
  /\ isRunning => reminderTimeoutRef = 0 /\ DOMAIN timeouts = {}

\* the timer has just been started and the pending reminder timer is gone
C16_Witness ==
  /\ lastEvent = "Toggle"
  /\ ~prev.isRunning
  /\ isRunning
  /\ isRunningRef
  /\ DOMAIN timeouts = {}

\* C17: while the timer is idle every firing of the reminder timer plays the
\* cue and schedules one new single-shot timer with the full interval.
C17_ReminderRecurs ==
  lastEvent = "Reminder" =>
    /\ ~isRunning
    /\ sounds = <<ReminderCue>>
    /\ FreshReminderTimer

\* the reminder has fired while idle and the next one is scheduled
C17_Witness ==
  /\ lastEvent = "Reminder"
  /\ ~isRunning
  /\ Played(ReminderCue)
  /\ FreshReminderTimer

\* C18: every transition from running to idle (pause, completion, mode
\* switch) leaves exactly one reminder timer that has the full interval
\* ahead of it.
C18_FullIntervalAfterStop ==
  prev.isRunning /\ ~isRunning => FreshReminderTimer

\* the timer has just been paused and a full-interval reminder is pending
C18_Witness ==
  /\ lastEvent = "Toggle"
  /\ prev.isRunning
  /\ ~isRunning
  /\ FreshReminderTimer

\* C19: once the timer surface is torn down no interval and no reminder
\* timer is live, so neither a Tick callback nor a reminder callback fires
\* afterwards.
C19_TeardownReleasesTimers ==
  /\ ~mounted => tickIntervals = 0 /\ DOMAIN timeouts = {} /\ reminderTimeoutRef = 0
  /\ lastEvent \in {"Tick", "Reminder"} => mounted

\* the surface was torn down while the timer was running
C19_Witness ==
  /\ lastEvent = "Unmount"
  /\ prev.isRunning
  /\ ~mounted
  /\ tickIntervals = 0

(***************************************************************************)
(* Properties of the metronome (checked under SpecMetronome)               *)
(***************************************************************************)
\* C20: the metronome sounds strictly alternate, starting with tick: a Tick
\* with the metronome enabled plays the sound other than the one played
\* last, however many pauses and Ticks with the metronome disabled lie in
\* between, and a Tick with the metronome disabled plays none and leaves
\* the alternation where it was.
C20_MetronomeAlternates ==
  /\ metronomeLog[2] # "none" => metronomeLog[1] # metronomeLog[2]
  /\ metronomeLog[1] = "none" /\ metronomeLog[2] # "none" => metronomeLog[2] = "tick"
  /\ nextTickIsTick = (metronomeLog[2] # "tick")
  /\ lastEvent = "Tick" /\ config["timer"].playTick =>
        sounds[1] = Cue(metronomeLog[2], "metronome")
  /\ lastEvent = "Tick" /\ ~config["timer"].playTick =>
        ~Played(Cue("tick", "metronome")) /\ ~Played(Cue("tock", "metronome"))

\* a Tick has just played tick after an earlier tock
C20_Witness ==
  /\ lastEvent = "Tick"
  /\ metronomeLog = <<"tock", "tick">>
  /\ Played(Cue("tick", "metronome"))

(***************************************************************************)
(* Properties of the timer commands and their cues (checked under          *)
(* SpecMachine)                                                            *)
(***************************************************************************)
\* mode, remaining, is-running and pending-mode, as a tuple
TimerState(t) == <<t.mode, t.remaining, t.isRunning, t.pendingMode>>

\* the timer state as it is now
Now == [mode |-> mode, remaining |-> remaining, isRunning |-> isRunning,
        pendingMode |-> pendingMode]

\* C21: the timer state after a Tick or a Toggle-Running is determined by
\* the state before it alone, whether the playback attempts of the operation
\* succeeded or were rejected: a rejected playback neither blocks nor alters
\* the transition (the mode-switch commands play nothing).
C21_AudioFailureHarmless ==
  /\ lastEvent = "Toggle" =>
        TimerState(Now) =
          <<prev.mode, prev.remaining, ~prev.isRunning, prev.pendingMode>>
  /\ lastEvent = "Tick" =>
        TimerState(Now) =
          IF prev.remaining <= 1
            THEN <<Opposite(prev.mode), MODES[Opposite(prev.mode)].seconds, FALSE,
                   prev.pendingMode>>
            ELSE <<prev.mode, prev.remaining - 1, prev.isRunning, prev.pendingMode>>
  /\ lastEvent \in {"Request", "Confirm", "Cancel"} => ~playFailed /\ sounds = <<>>

\* the start cue was rejected and the timer runs all the same
C21_Witness ==
  /\ lastEvent = "Toggle"
  /\ playFailed
  /\ Played(Cue(mode, "start"))
  /\ ~prev.isRunning
  /\ isRunning

\* C22: a Toggle-Running that starts the timer, followed at once by a second
\* Toggle-Running, leaves remaining, mode and pending-mode as they were
\* before the first one, and is-running false.
C22_DoubleToggle ==
  [][(lastEvent = "Toggle" /\ ~prev.isRunning /\ isRunning /\ lastEvent' = "Toggle") =>
       /\ remaining' = prev.remaining
       /\ mode' = prev.mode
       /\ pendingMode' = prev.pendingMode
       /\ ~isRunning']_vars

\* a countdown that was under way has been resumed and paused again, with
\* no second lost
C22_Witness ==
  /\ lastEvent = "Toggle"
  /\ prev.isRunning
  /\ ~isRunning
  /\ remaining = prev.remaining
  /\ remaining = total - 1
  /\ sounds = <<>>

\* C23: Toggle-Running plays the start cue of the current mode when it takes
\* the timer from idle to running and plays nothing when it pauses; no other
\* operation plays a start cue.
C23_StartCue ==
  /\ lastEvent = "Toggle" =>
        sounds = IF prev.isRunning THEN <<>> ELSE <<Cue(prev.mode, "start")>>
  /\ (\E m \in Modes : Played(Cue(m, "start"))) =>
        lastEvent = "Toggle" /\ ~prev.isRunning /\ isRunning

\* a Break has just been started and its start cue was asked for
C23_Witness ==
  /\ lastEvent = "Toggle"
  /\ ~prev.isRunning
  /\ isRunning
  /\ mode = "break"
  /\ sounds = <<Cue("break", "start")>>

\* C29: a Tick with more than one second remaining takes exactly one second
\* off and leaves mode, is-running and pending-mode alone; a Tick happens
\* only while the timer is running, so the remaining time of an idle timer
\* changes only through a mode switch.
C29_TickFrame ==
  /\ lastEvent = "Tick" => prev.isRunning
  /\ lastEvent = "Tick" /\ prev.remaining > 1 =>
        /\ remaining = prev.remaining - 1
        /\ mode = prev.mode
        /\ isRunning = prev.isRunning
        /\ pendingMode = prev.pendingMode
  /\ ~prev.isRunning /\ remaining # prev.remaining =>
        lastEvent \in {"Request", "Confirm"}

\* a Tick in the middle of a Break with the confirmation open
C29_Witness ==
  /\ lastEvent = "Tick"
  /\ prev.remaining > 1
  /\ remaining = prev.remaining - 1
  /\ mode = "break"
  /\ pendingMode = "focus"
  /\ isRunning

\* C30: whenever pending-mode is set it is the opposite of the current mode
\* (refuted: a Tick that completes the running mode while the confirmation
\* is open turns the mode into the pending one).
C30_PendingIsOpposite ==
  pendingMode # "null" => pendingMode = Opposite(mode)

(***************************************************************************)
(* Properties of lib/pomodoro.ts (checked under SpecPomodoro)              *)
(***************************************************************************)
\* an integer limited to [1, 120]
Limited(i) == IF i < 1 THEN 1 ELSE IF i > 120 THEN 120 ELSE i

\* the integer handed over as the minutes of the selected mode
SelectedMinutes == Selected(call).h \div 2

\* C28: for every integer minutes value clamp returns the value limited to
\* [1, 120], and secondsFor returns 60 times the limited minutes of the
\* selected mode: a result between 60 and 7200 that is minutes x 60 for
\* minutes in [1, 120].
C28_ClampAndSeconds ==
  /\ call.fn = "clampTimerMinutes" => call.clamped = Fin(Limited(SelectedMinutes))
  /\ call.fn = "getModeSeconds" =>
        /\ call.seconds = 60 * Limited(SelectedMinutes)
        /\ call.seconds >= 60 /\ call.seconds <= 7200
        /\ SelectedMinutes \in 1..120 => call.seconds = SelectedMinutes * 60

\* the seconds of a Break of 123 minutes have been asked for
C28_Witness ==
  /\ call.fn = "getModeSeconds"
  /\ call.mode = "break"
  /\ call.breakMinutes = Fin(123)
  /\ call.focusMinutes = Fin(0 - 2)
  /\ call.seconds = 7200


(***************************************************************************)
(* Properties of the session store (checked under SpecSessions)            *)
(***************************************************************************)
\* the session row and the usage rows the last operation added
LastRow == sessions[Len(sessions)]

\* the length of a segment in milliseconds, 0 when a timestamp cannot be
\* read or the end is not after the start
SegmentMillis(segment) ==
  IF segment.startedAt < 0 \/ segment.endedAt < 0 THEN 0
  ELSE IF segment.endedAt <= segment.startedAt THEN 0
  ELSE segment.endedAt - segment.startedAt

\* a length in whole seconds, to the nearest second, a half going down or up
SecondsLow(ms) == (ms + 499) \div 1000

SecondsHigh(ms) == (ms + 500) \div 1000

RECURSIVE LowSeconds(_)
LowSeconds(segments) ==
  IF segments = << >> THEN 0
  ELSE SecondsLow(SegmentMillis(Head(segments))) + LowSeconds(Tail(segments))

RECURSIVE HighSeconds(_)
HighSeconds(segments) ==
  IF segments = << >> THEN 0
  ELSE SecondsHigh(SegmentMillis(Head(segments))) + HighSeconds(Tail(segments))

GivenFocus(record) == Has(record, "focusSeconds") /\ record.focusSeconds # Null

\* C24: a session recorded without focus-seconds but with app-usage segments
\* is stored with the sum of the segments' lengths in seconds, a segment that
\* ends at or before its start (or has an unreadable timestamp) adding 0; a
\* session recorded with focus-seconds is stored with that value.
C24_FocusSecondsDerived ==
  (lastOp.op = "addSession" /\ lastOp.ok) =>
    /\ GivenFocus(lastOp.record) => LastRow.focusSeconds = lastOp.record.focusSeconds
    /\ (~GivenFocus(lastOp.record) /\ Has(lastOp.record, "appUsage")) =>
         /\ IsInteger(LastRow.focusSeconds)
         /\ LastRow.focusSeconds.h >= 2 * LowSeconds(lastOp.record.appUsage)
         /\ LastRow.focusSeconds.h <= 2 * HighSeconds(lastOp.record.appUsage)

C24_Witness ==
  /\ lastOp.op = "addSession" /\ lastOp.ok
  /\ ~GivenFocus(lastOp.record) /\ Has(lastOp.record, "appUsage")
  /\ \E n \in DOMAIN lastOp.record.appUsage :
       lastOp.record.appUsage[n].endedAt <= lastOp.record.appUsage[n].startedAt
  /\ LastRow.focusSeconds = Fin(2)

\* the positions of the merged entries whose key is neither stored nor the key
\* of an earlier entry of the call
FreshEntries(stored, entries) ==
  { n \in DOMAIN entries :
      /\ \A m \in DOMAIN stored :
           createSessionKey(stored[m]) # createSessionKey(entries[n])
      /\ \A m \in 1..(n - 1) :
           createSessionKey(entries[m]) # createSessionKey(entries[n]) }

AddedRows == (Len(lastOp.before.sessions) + 1)..Len(sessions)

\* C25: a merge keeps the stored sessions, adds one session for each entry
\* whose key matches no stored session and no earlier entry of the call, and
\* returns how many it added; merging the same entries again adds nothing,
\* returns 0 and leaves the store as it is.
C25_MergeInsertsFresh ==
  (lastOp.op = "mergeSessions" /\ lastOp.ok) =>
    LET fresh == FreshEntries(lastOp.before.sessions, lastOp.entries)
    IN  /\ lastOp.returned = Cardinality(fresh)
        /\ Len(sessions) = Len(lastOp.before.sessions) + Cardinality(fresh)
        /\ SubSeq(sessions, 1, Len(lastOp.before.sessions)) = lastOp.before.sessions
        /\ {createSessionKey(sessions[n]) : n \in AddedRows}
             = {createSessionKey(lastOp.entries[n]) : n \in fresh}
        /\ \A n \in AddedRows :
             \E m \in fresh : sessions[n] = SessionRow(n, lastOp.entries[m])
        /\ mergeSessions(Db, lastOp.entries) = [db |-> Db, count |-> 0]

C25_Witness ==
  /\ lastOp.op = "mergeSessions" /\ lastOp.ok
  /\ lastOp.before.sessions # << >>
  /\ lastOp.returned = 1
  /\ Len(lastOp.entries) = 3

\* an import file that is no well-formed payload: it cannot be parsed, is no
\* object with a sessions array, or one of its entries is no object with
\* string timestamps
Malformed(file) ==
  \/ file.kind \in {"broken", "scalar"}
  \/ file.kind = "object" /\ ~Has(file, "sessions")
  \/ /\ file.kind = "object" /\ Has(file, "sessions")
     /\ \E n \in DOMAIN file.sessions : ~WellFormedEntry(file.sessions[n])

\* C26: an import of a malformed payload is rejected and leaves the session
\* store as it was.
C26_MalformedImportRejected ==
  (lastOp.op = "import" /\ Malformed(lastOp.file)) =>
    /\ ~lastOp.ok
    /\ Db = lastOp.before

\* C27: when recording a session fails, neither its session row nor any of
\* its usage rows is in the store.
C27_AddSessionAtomic ==
  (lastOp.op = "addSession" /\ ~lastOp.ok) => Db = lastOp.before


(***************************************************************************)
(* Properties of the timers the hook keeps (C34 under SpecReminder, C35    *)
(* under SpecInterval, C36 under SpecMachine)                              *)
(***************************************************************************)
\* C34: at most one reminder timer is pending at any moment: exactly one,
\* the one the ref holds, while the surface is mounted and idle, and none
\* while the timer is running.
C34_OneReminderTimer ==
  /\ Cardinality(DOMAIN timeouts) <= 1
  /\ (mounted /\ ~isRunning) => DOMAIN timeouts = {reminderTimeoutRef}
  /\ isRunning => DOMAIN timeouts = {}

\* a countdown has completed and one reminder timer, the one the ref holds,
\* is pending again
C34_Witness ==
  /\ Completed /\ prev.isRunning
  /\ mounted /\ ~isRunning
  /\ Cardinality(DOMAIN timeouts) = 1
  /\ reminderTimeoutRef \in DOMAIN timeouts

\* C35: one recurring Tick timer is live while the timer is running and none
\* while it is not, whatever mode switches and changes of the tick-sound
\* setting happen in between.
C35_OneTickInterval == tickIntervals = (IF isRunning THEN 1 ELSE 0)

\* the tick-sound setting was switched on during a run and one interval is live
C35_Witness ==
  /\ lastEvent = "ConfigChanged"
  /\ prev.isRunning /\ isRunning
  /\ config["timer"].playTick
  /\ prev.remaining < prev.total
  /\ tickIntervals = 1

\* C36: remaining is at least 1 in every reachable state; the completing
\* Tick puts the next mode's total in its place.
C36_RemainingPositive ==
  /\ remaining >= 1
  /\ Completed => remaining = MODES[mode].seconds

\* a Tick at remaining = 1 has completed the countdown
C36_Witness ==
  /\ Completed
  /\ prev.remaining = 1
  /\ remaining = MODES[mode].seconds
  /\ mode = Opposite(prev.mode)


(***************************************************************************)
(* Export and import (checked under SpecTransfer)                          *)
(***************************************************************************)
\* C31: importing an export in overwrite mode leaves the store with the
\* sessions of the export: same started-at, ended-at, focus-seconds (null
\* included) and usage segments.
C31_ExportImportRoundTrip ==
  (/\ lastOp.op = "import" /\ lastOp.ok
   /\ lastOp.mode = "overwrite"
   /\ Has(lastOp.file, "version")) =>
    listAllSessions(Db) = lastOp.file.sessions


(***************************************************************************)
(* Properties of the main window's close handling (checked under           *)
(* SpecWindow)                                                             *)
(***************************************************************************)
\* the last operation closed the main window
JustClosed == lastWin.op = "close" /\ lastWin.before.mainWindow /\ ~mainWindow

\* C32: while a focus session is marked active, a close request that comes
\* before any Quit is prevented and opens a dialog, Keep Session leaves the
\* window and the session flag as they are, and the window closes with the
\* session active only after Quit was chosen.
C32_CloseConfirmed ==
  /\ (/\ lastWin.op = "close"
      /\ lastWin.before.active /\ ~lastWin.before.bypass) =>
       /\ mainWindow /\ hasActiveFocusSession
       /\ dialogs = lastWin.before.dialogs + 1
  /\ (lastWin.op = "answer" /\ lastWin.choice = "Keep Session") =>
       /\ mainWindow = lastWin.before.mainWindow
       /\ hasActiveFocusSession = lastWin.before.active
  /\ (JustClosed /\ lastWin.before.active) => quitChosen

\* the window was closed with a session active, after Quit
C32_Witness ==
  /\ JustClosed
  /\ lastWin.before.active /\ lastWin.before.bypass
  /\ quitChosen

\* C33: the bypass flag is set only after Quit was chosen and while the
\* window it closes still exists; with no main window both flags are false,
\* so a new main window starts with the confirmation in force.
C33_BypassOnlyWhileClosing ==
  /\ isBypassingCloseConfirmation => mainWindow /\ quitChosen /\ closePending
  /\ ~mainWindow => ~isBypassingCloseConfirmation /\ ~hasActiveFocusSession
  /\ lastWin.op = "activate" => ~isBypassingCloseConfirmation

\* a window closed after Quit has been replaced by a new one
C33_Witness ==
  /\ lastWin.op = "activate"
  /\ lastWin.before.quit
  /\ mainWindow
  /\ ~isBypassingCloseConfirmation


(***************************************************************************)
(* Always-on-top (checked under SpecTop)                                   *)
(***************************************************************************)
\* C37: once every always-on-top request has settled, the value the window
\* shows is the main window's always-on-top state.
C37_ShownValueIsActual ==
  (requests = << >> /\ replies = << >>) => topValue = isAlwaysOnTop

====
